---- MODULE Spec2Model ----
(***************************************************************************)
(* The post query engine of the blog list component: free-text search,     *)
(* tag selection and sort order over a fixed post collection.  The         *)
(* repository holds two copies of the component, src/components/blog/      *)
(* BlogList.tsx ("BlogList") and unnamed/part_000 ("part_000"); they are   *)
(* driven here by the same setter calls and each keeps its own derived     *)
(* filteredPosts.                                                          *)
(*                                                                         *)
(* Strings that the code inspects (titles, descriptions, search text,      *)
(* tags) are sequences of UTF-16 code units; pubDate is the integer that   *)
(* Date.getTime() returns.                                                 *)
(***************************************************************************)
EXTENDS Integers, Sequences, FiniteSets, TLC

\* Longest post collection handed to the component.
MaxPosts == 3

Copies == {"BlogList", "part_000"}

\* The four <option> values of the sort <select>.
SortOrders == {"newest", "oldest", "a-z", "z-a"}

\* How the host's default locale orders two titles that differ in case only:
\* lower case first (en-US, de-DE, ...) or upper case first (da-DK, mt-MT).
CaseFirsts == {"lower", "upper"}

\* Marker for a post whose optional `tags` field is absent.
NoTags == "undefined"

\* The tag strings of the posts: "x", "X", "xy"
TagInputs == { <<120>>, <<88>>, <<120, 121>> }

\* "", "AL", "b": the empty text; a text every post of the pool matches once
\* both sides are lowercased (post 2 by its description only); a text only
\* posts 2 (by title) and 4 (by description) match.
SearchInputs == { <<>>, <<65, 76>>, <<98>> }

\* The posts a collection is built from.
\*   1: "Alpha" / "one"   / day 1 / tags ["x"]
\*   2: "Beta"  / "ALPHA" / day 2 / tags []
\*   3: "alpha" / ""      / day 1 / tags ["xy","x","X","xy"]
\*   4: "Alpha" / "b"     / day 3 / tags absent
PostPool ==
  { [id |-> 1, title |-> <<65, 108, 112, 104, 97>>, description |-> <<111, 110, 101>>,
     pubDate |-> 1, tags |-> << <<120>> >>],
    [id |-> 2, title |-> <<66, 101, 116, 97>>, description |-> <<65, 76, 80, 72, 65>>,
     pubDate |-> 2, tags |-> << >>],
    [id |-> 3, title |-> <<97, 108, 112, 104, 97>>, description |-> << >>,
     pubDate |-> 1, tags |-> << <<120, 121>>, <<120>>, <<88>>, <<120, 121>> >>],
    [id |-> 4, title |-> <<65, 108, 112, 104, 97>>, description |-> <<98>>,
     pubDate |-> 3, tags |-> NoTags] }

\* Post collections: sequences of posts with unique ids.
Collections ==
  { c \in UNION { [1..n -> PostPool] : n \in 0..MaxPosts } :
      \A i, j \in 1..Len(c) : i # j => c[i].id # c[j].id }

\* posts, search, selectedTags, sortOrder: the props and state of the
\* component; allTags, filteredPosts: its memoised values, filteredPosts per
\* copy; caseFirst: the case ordering of the host's default locale.  toggles
\* and last are history variables: the parity of the toggleTag calls per tag,
\* and the latest call with the state it started from.
VARIABLES posts, caseFirst, search, selectedTags, sortOrder, allTags,
          filteredPosts, toggles, last

vars == <<posts, caseFirst, search, selectedTags, sortOrder, allTags,
          filteredPosts, toggles, last>>

----------------------------------------------------------------------------
\* Helpers on sequences

Range(s) == { s[i] : i \in 1..Len(s) }

\* Array.prototype.includes
ArrayIncludes(arr, x) == \E i \in 1..Len(arr) : arr[i] = x

\* String.prototype.toLowerCase on A-Z
toLowerCase(s) == [i \in 1..Len(s) |-> IF s[i] \in 65..90 THEN s[i] + 32 ELSE s[i]]

\* String.prototype.includes: q occurs in s as a contiguous substring
StringIncludes(s, q) ==
  \E i \in 0..(Len(s) - Len(q)) : SubSeq(s, i + 1, i + Len(q)) = q

\* Sign of the first differing position of two sequences of numbers, a
\* proper prefix first.
LexCompare(a, b) ==
  LET n == IF Len(a) < Len(b) THEN Len(a) ELSE Len(b)
      D == { i \in 1..n : a[i] # b[i] }
  IN IF D = {}
       THEN (IF Len(a) < Len(b) THEN -1 ELSE IF Len(a) > Len(b) THEN 1 ELSE 0)
       ELSE LET k == CHOOSE i \in D : \A j \in D : i <= j
            IN IF a[k] < b[k] THEN -1 ELSE 1

\* Comparison of the default Array.prototype.sort(): by UTF-16 code units.
CodeUnitCompare(a, b) == LexCompare(a, b)

\* String.prototype.localeCompare on letters, in the host's default locale:
\* alphabetical without regard to case first; strings equal up to case are
\* ordered by the first position of differing case, lower or upper case first
\* as the locale has it.
localeCompare(a, b) ==
  LET p == LexCompare(toLowerCase(a), toLowerCase(b))
  IN IF p # 0 THEN p
     ELSE IF caseFirst = "lower" THEN -LexCompare(a, b) ELSE LexCompare(a, b)

----------------------------------------------------------------------------
\* Array.prototype.sort: a stable sort.  x is inserted after the last element
\* that does not compare greater than it; cmps[k] is comparator(sorted[k], x).

InsertPosTiesFirst(cmps) ==
  LET K == { k \in 1..Len(cmps) : cmps[k] < 0 }
  IN IF K = {} THEN 0 ELSE CHOOSE k \in K : \A j \in K : j <= k

InsertPos(cmps) ==
  LET K == { k \in 1..Len(cmps) : cmps[k] <= 0 }
  IN IF K = {} THEN 0 ELSE CHOOSE k \in K : \A j \in K : j <= k

InsertAt(sorted, pos, x) ==
  SubSeq(sorted, 1, pos) \o <<x>> \o SubSeq(sorted, pos + 1, Len(sorted))

\* Array.from(tags).sort(): the default comparison
SortTags(tags) ==
  LET ins[i \in 0..Len(tags)] ==
        IF i = 0 THEN << >>
        ELSE LET sorted == ins[i - 1]
                 cmps == [k \in 1..Len(sorted) |-> CodeUnitCompare(sorted[k], tags[i])]
             IN InsertAt(sorted, InsertPos(cmps), tags[i])
  IN ins[Len(tags)]

----------------------------------------------------------------------------
\* allTags: the tags of all posts in a Set (insertion order, no duplicates),
\* then Array.from(tags).sort()

PostTags(post) == IF post.tags = NoTags THEN << >> ELSE post.tags

SetAddNoDedup(acc, tag) == Append(acc, tag)

SetAdd(acc, tag) == IF ArrayIncludes(acc, tag) THEN acc ELSE Append(acc, tag)

AddAll(acc, tagSeq) ==
  LET f[i \in 0..Len(tagSeq)] ==
        IF i = 0 THEN acc ELSE SetAdd(f[i - 1], tagSeq[i])
  IN f[Len(tagSeq)]

CollectTags(ps) ==
  LET f[i \in 0..Len(ps)] ==
        IF i = 0 THEN << >> ELSE AddAll(f[i - 1], PostTags(ps[i]))
  IN f[Len(ps)]

AllTags(ps) == SortTags(CollectTags(ps))

----------------------------------------------------------------------------
\* filteredPosts: posts.filter(matchesSearch && matchesTags).sort(comparator)

MatchesSearchTitleOnly(s, post) ==
  StringIncludes(toLowerCase(post.title), toLowerCase(s))

MatchesSearch(s, post) ==
  \/ StringIncludes(toLowerCase(post.title), toLowerCase(s))
  \/ StringIncludes(toLowerCase(post.description), toLowerCase(s))

\* post.data.tags?.includes(tag): undefined (falsy) when tags is absent
PostHasTag(post, tag) == post.tags # NoTags /\ ArrayIncludes(post.tags, tag)

\* BlogList.tsx tests selectedTags.every(...), part_000 selectedTags.some(...)
MatchesTags(copy, sel, post) ==
  \/ Len(sel) = 0
  \/ IF copy = "BlogList"
       THEN \A i \in 1..Len(sel) : PostHasTag(post, sel[i])
       ELSE \E i \in 1..Len(sel) : PostHasTag(post, sel[i])

ComparatorOldestAsNewest(order, a, b) ==
  IF order = "newest" THEN b.pubDate - a.pubDate
  ELSE IF order = "oldest" THEN b.pubDate - a.pubDate
  ELSE IF order = "a-z" THEN localeCompare(a.title, b.title)
  ELSE localeCompare(b.title, a.title)

\* The sort comparator
Comparator(order, a, b) ==
  IF order = "newest" THEN b.pubDate - a.pubDate
  ELSE IF order = "oldest" THEN a.pubDate - b.pubDate
  ELSE IF order = "a-z" THEN localeCompare(a.title, b.title)
  ELSE localeCompare(b.title, a.title)

\* .sort((a, b) => ...) with the comparator of the active order
SortPosts(ps, order) ==
  LET ins[i \in 0..Len(ps)] ==
        IF i = 0 THEN << >>
        ELSE LET sorted == ins[i - 1]
                 cmps == [k \in 1..Len(sorted) |-> Comparator(order, sorted[k], ps[i])]
             IN InsertAt(sorted, InsertPos(cmps), ps[i])
  IN ins[Len(ps)]

\* posts.filter((post) => matchesSearch && matchesTags)
FilterPosts(copy, ps, s, sel) ==
  SelectSeq(ps, LAMBDA post : MatchesSearch(s, post) /\ MatchesTags(copy, sel, post))

FilteredPosts(copy, ps, s, sel, order) ==
  SortPosts(FilterPosts(copy, ps, s, sel), order)

\* useMemo: the cached value unless a dependency changed
useMemo(cached, fresh, depsChanged) == IF depsChanged THEN fresh ELSE cached

----------------------------------------------------------------------------
\* State updates of the three setters

SetSearchValue(prev, text) == text

SetSortOrderFlipOnRepeat(prev, order) ==
  IF order # prev THEN order
  ELSE IF order = "newest" THEN "oldest"
  ELSE IF order = "oldest" THEN "newest"
  ELSE IF order = "a-z" THEN "z-a"
  ELSE "a-z"

SetSortOrderValue(prev, order) == order

ToggleTagAlwaysAppend(prev, tag) == Append(prev, tag)

ToggleTagValue(prev, tag) ==
  IF ArrayIncludes(prev, tag)
    THEN SelectSeq(prev, LAMBDA t : t # tag)
    ELSE Append(prev, tag)

\* The query state and results an operation started from
Snapshot == [search |-> search, selectedTags |-> selectedTags,
             sortOrder |-> sortOrder, filteredPosts |-> filteredPosts]

\* Record of a call: its name and argument, whether the call before it was
\* the same call with the same argument, and the state it started from
Called(op, arg) ==
  [op |-> op, arg |-> arg,
   repeat |-> (last.op = op /\ last.arg = arg),
   pre |-> Snapshot]

\* Re-render after a state update: both memoised values
Render ==
  /\ UNCHANGED <<posts, caseFirst>>
  /\ allTags' = useMemo(allTags, AllTags(posts'), posts' # posts)
  /\ filteredPosts' =
       [c \in Copies |->
          useMemo(filteredPosts[c],
                  FilteredPosts(c, posts', search', selectedTags', sortOrder'),
                  \/ posts' # posts
                  \/ search' # search
                  \/ selectedTags' # selectedTags
                  \/ sortOrder' # sortOrder)]

Init ==
  /\ posts \in Collections
  /\ caseFirst \in CaseFirsts
  /\ search = << >>
  /\ selectedTags = << >>
  /\ sortOrder = "newest"
  /\ allTags = AllTags(posts)
  /\ filteredPosts = [c \in Copies |-> FilteredPosts(c, posts, search, selectedTags, sortOrder)]
  /\ toggles = [t \in TagInputs |-> 0]
  /\ last = [op |-> "init", arg |-> << >>, repeat |-> FALSE, pre |-> Snapshot]

SetSearch ==
  \E text \in SearchInputs :
    /\ search' = SetSearchValue(search, text)
    /\ UNCHANGED <<selectedTags, sortOrder, toggles>>
    /\ last' = Called("setSearch", text)
    /\ Render

\* One <button> per tag of allTags
ToggleTag ==
  \E tag \in Range(allTags) :
    /\ selectedTags' = ToggleTagValue(selectedTags, tag)
    /\ toggles' = [toggles EXCEPT ![tag] = (@ + 1) % 2]
    /\ UNCHANGED <<search, sortOrder>>
    /\ last' = Called("toggleTag", tag)
    /\ Render

\* e.target.value is the value of one of the four <option>s
SetSortOrder ==
  \E order \in SortOrders :
    /\ sortOrder' = SetSortOrderValue(sortOrder, order)
    /\ UNCHANGED <<search, selectedTags, toggles>>
    /\ last' = Called("setSortOrder", order)
    /\ Render

Next == SetSearch \/ ToggleTag \/ SetSortOrder

Spec == Init /\ [][Next]_vars

----------------------------------------------------------------------------
\* Vocabulary of the claims, stated on the current state without the
\* definitions of the component above.

\* Position of a post in the collection (ids are unique)
IndexIn(ps, p) == CHOOSE i \in 1..Len(ps) : ps[i].id = p.id

NoRepeats(s) == \A i, j \in 1..Len(s) : i # j => s[i] # s[j]

\* Tags that occur in the post's tag sequence, none when it is absent
TagSetOf(post) == IF post.tags = NoTags THEN {} ELSE Range(post.tags)

\* Section 4.2: the lowercased search text is a substring of the lowercased
\* title or description
SearchHolds(q, post) ==
  LET lq == toLowerCase(q)
  IN \/ StringIncludes(toLowerCase(post.title), lq)
     \/ StringIncludes(toLowerCase(post.description), lq)

\* Section 4.3: ALL-match in BlogList.tsx, ANY-match in part_000
TagPolicyHolds(c, sel, post) ==
  IF c = "BlogList"
    THEN Range(sel) \subseteq TagSetOf(post)
    ELSE Range(sel) = {} \/ Range(sel) \cap TagSetOf(post) # {}

CombinedHolds(c, post) ==
  SearchHolds(search, post) /\ TagPolicyHolds(c, selectedTags, post)

\* The posts passing the combined filter, in collection order
Passing(c) == SelectSeq(posts, LAMBDA post : CombinedHolds(c, post))

\* C1 as stated: in every reachable state getResults() is a subsequence of
\* the post collection (the passing posts in collection order) holding a post
\* exactly when the combined filter holds for it under the current state.
C1_AsStated == \A c \in Copies : filteredPosts[c] = Passing(c)

\* C1 amended: in every reachable state getResults() is a rearrangement of
\* the subsequence of passing posts: it holds each post at most once and holds
\* a post exactly when the combined filter holds for it under the current
\* search text and selected tags.
C1_ResultsAreThePassingPosts ==
  \A c \in Copies :
    /\ NoRepeats(filteredPosts[c])
    /\ Range(filteredPosts[c]) = { p \in Range(posts) : CombinedHolds(c, p) }

\* A setter has run and, in one and the same copy, the search text excludes a
\* post of the collection while the result keeps two posts and holds them in
\* another order than the collection does.
C1_Witness ==
  /\ last.op # "init"
  /\ search # << >>
  /\ \E p \in Range(posts) : ~SearchHolds(search, p)
  /\ \A c \in Copies :
       /\ Len(filteredPosts[c]) = 2
       /\ Len(filteredPosts[c]) < Len(posts)
       /\ filteredPosts[c] # Passing(c)

\* C2: both copies of the engine, driven by the same setter calls, produce the
\* same getResults() sequence in every state.
C2_CopiesAgree == filteredPosts["BlogList"] = filteredPosts["part_000"]

\* Adjacent results respect the order named
OrderedUnder(order, res) ==
  \A i \in 1..(Len(res) - 1) :
    LET p == res[i]
        q == res[i + 1]
    IN /\ order = "newest" => p.pubDate >= q.pubDate
       /\ order = "oldest" => p.pubDate <= q.pubDate
       /\ order = "a-z" => localeCompare(p.title, q.title) <= 0
       /\ order = "z-a" => localeCompare(p.title, q.title) >= 0

\* C4: adjacent posts of getResults() respect the active sort order, and with
\* the default state the result is the whole collection, newest first.
C4_ResultsOrdered ==
  \A c \in Copies :
    /\ OrderedUnder(sortOrder, filteredPosts[c])
    /\ (search = << >> /\ selectedTags = << >> /\ sortOrder = "newest")
         => /\ Len(filteredPosts[c]) = Len(posts)
            /\ Range(filteredPosts[c]) = Range(posts)
            /\ OrderedUnder("newest", filteredPosts[c])

\* setSortOrder("oldest") has run on two posts of different dates that the
\* collection holds newest first.
C4_Witness ==
  /\ last.op = "setSortOrder"
  /\ sortOrder = "oldest"
  /\ Len(filteredPosts["BlogList"]) = 2
  /\ filteredPosts["BlogList"][1].pubDate < filteredPosts["BlogList"][2].pubDate
  /\ filteredPosts["BlogList"] # posts

\* C5: toggleTag(t) directly followed by toggleTag(t) restores the selected
\* tags (as a set) and the results of before the first call, and leaves search
\* text and sort order as they were.
C5_ToggleRoundTrip ==
  [][ (last.op = "toggleTag" /\ last'.op = "toggleTag" /\ last'.arg = last.arg)
        => /\ Range(selectedTags') = Range(last.pre.selectedTags)
           /\ filteredPosts' = last.pre.filteredPosts
           /\ search' = last.pre.search
           /\ sortOrder' = last.pre.sortOrder ]_vars

\* The same tag was toggled twice in a row, it was selected before (and is
\* again, now last of several), and the first toggle had changed the results.
C5_Witness ==
  /\ last.op = "toggleTag"
  /\ last.repeat
  /\ Len(selectedTags) >= 2
  /\ selectedTags[Len(selectedTags)] = last.arg
  /\ filteredPosts # last.pre.filteredPosts

\* C6 as stated: calling any of the three setters twice in succession with the
\* same argument leaves getResults() as it was after the first call.
C6_AsStated ==
  [][ (last'.op = last.op /\ last'.arg = last.arg)
        => filteredPosts' = filteredPosts ]_vars

\* C6 amended: calling setSearch or setSortOrder twice in succession with the
\* same argument leaves getResults() (and the query state) as it was after the
\* first call.
C6_SetSearchSetSortOrderIdempotent ==
  [][ (/\ last'.op \in {"setSearch", "setSortOrder"}
       /\ last'.op = last.op
       /\ last'.arg = last.arg)
        => /\ filteredPosts' = filteredPosts
           /\ search' = search
           /\ sortOrder' = sortOrder ]_vars

\* setSortOrder was called twice in a row with an order other than the default
\* on a result of two posts that order rearranges.
C6_Witness ==
  /\ last.op = "setSortOrder"
  /\ last.repeat
  /\ last.arg = "oldest"
  /\ Len(filteredPosts["BlogList"]) = 2
  /\ filteredPosts["BlogList"][1].pubDate < filteredPosts["BlogList"][2].pubDate

\* Two posts compare equal under the active sort key
SameKey(order, p, q) ==
  /\ order \in {"newest", "oldest"} => p.pubDate = q.pubDate
  /\ order \in {"a-z", "z-a"} => p.title = q.title

\* C7: posts of the result that compare equal under the active sort key stand
\* in the relative order they have in the collection.
C7_SortStable ==
  \A c \in Copies :
    \A i, j \in 1..Len(filteredPosts[c]) :
      (/\ i < j
       /\ sortOrder \in SortOrders
       /\ SameKey(sortOrder, filteredPosts[c][i], filteredPosts[c][j]))
        => IndexIn(posts, filteredPosts[c][i]) < IndexIn(posts, filteredPosts[c][j])

\* Sorted z-a after a setter ran, with two posts of identical title in the
\* result.
C7_Witness ==
  /\ sortOrder = "z-a"
  /\ Len(filteredPosts["part_000"]) = 2
  /\ filteredPosts["part_000"][1].title = filteredPosts["part_000"][2].title
  /\ filteredPosts["part_000"][1].id # filteredPosts["part_000"][2].id

\* C8: the vocabulary is strictly ascending in code-unit order and holds
\* exactly the tags occurring in some post's tag sequence, in every state,
\* whatever setters have run.
C8_VocabularySortedExact ==
  /\ \A i \in 1..(Len(allTags) - 1) : LexCompare(allTags[i], allTags[i + 1]) < 0
  /\ Range(allTags) = UNION { TagSetOf(p) : p \in Range(posts) }

\* Setters have run on a collection with a post without tags and a post whose
\* tags repeat; the vocabulary has three tags.
C8_Witness ==
  /\ last.op # "init"
  /\ Len(allTags) = 3
  /\ \E p \in Range(posts) : p.tags = NoTags
  /\ \E p \in Range(posts) : p.tags # NoTags /\ ~NoRepeats(p.tags)

\* C9: toggleTag(t) flips the membership of t in selectedTags, changes the
\* membership of no other tag and leaves search text and sort order alone;
\* selectedTags then has no duplicate and holds a tag exactly when it has been
\* toggled an odd number of times.
C9_TogglePureMembership ==
  [][ last'.op = "toggleTag"
        => /\ (last'.arg \in Range(selectedTags')) <=> (last'.arg \notin Range(selectedTags))
           /\ \A u \in TagInputs \ {last'.arg} :
                (u \in Range(selectedTags')) <=> (u \in Range(selectedTags))
           /\ Range(selectedTags') \subseteq TagInputs
           /\ search' = search
           /\ sortOrder' = sortOrder
           /\ NoRepeats(selectedTags')
           /\ \A u \in TagInputs : (u \in Range(selectedTags')) <=> (toggles'[u] = 1) ]_vars

\* A toggle removed a tag from between two others that stay selected.
C9_Witness ==
  /\ last.op = "toggleTag"
  /\ last.arg \notin Range(selectedTags)
  /\ Len(selectedTags) = 2
  /\ Len(last.pre.selectedTags) = 3
  /\ last.pre.selectedTags[2] = last.arg

====
